---- MODULE Spec2Model ----
(***************************************************************************)
(* KlipDot (JS prototype): ClipboardHandler, TerminalInterceptor and       *)
(* ComprehensiveInterceptor as state machines.                             *)
(*                                                                         *)
(* Specifications                                                          *)
(*   SpecStore  direct, concurrent calls of the four store functions and a *)
(*              reader of the screenshot directory                         *)
(*   SpecClip   the two clipboard watchers that ComprehensiveInterceptor   *)
(*              runs, the user as the other clipboard writer, stop()       *)
(*   SpecStdin  the generated stdin-wrapper.js                             *)
(*   SpecCoord  ComprehensiveInterceptor.initialize, the directory         *)
(*              watchers, the process monitor                              *)
(*   SpecPoll   the ClipboardHandler alone, as index.js starts it, with    *)
(*              the fairness of the event loop                             *)
(*   SpecWatch  one fs.watch watcher and the events of its directory       *)
(*   SpecConfig loadConfig and updateConfig of the integration class       *)
(*   SpecHistory getScreenshotHistory and cleanupOldScreenshots on a       *)
(*              directory of files                                         *)
(*   SpecRestart the ClipboardHandler whose owner calls start() again      *)
(*   SpecTree   the watcher of SpecWatch when the screenshot directory is  *)
(*              the watched directory                                      *)
(*   SpecService runs of the generated service.sh from two terminals       *)
(* A variable that a specification does not use keeps its initial value.   *)
(***************************************************************************)
EXTENDS Integers, Sequences, FiniteSets, Bags, TLC

VARIABLES
  now,          \* the clock read by `new Date()`, in milliseconds
  files,        \* the screenshot directory: name -> file
  returned,     \* SpecStore: the paths the store calls have returned, in order
  clipboard,    \* the system clipboard
  clipboardWriter, \* who set the clipboard last: "user" or "watcher"
  calls,        \* SpecStore: the store calls in progress
  listed,       \* SpecStore: the last result of getScreenshotHistory
  platform,     \* SpecClip: process.platform
  screenshotDir, \* SpecClip: the screenshot directory is "absent" or "present"
  seenImage,    \* SpecClip: the watchers whose last read, since the clipboard was
                \* last set, resolved an image
  ticks,        \* SpecClip: the clipboard ticks in progress, a bag
  polling,      \* SpecClip: ClipboardHandler.polling
  lastClipboardContent, \* SpecClip: ClipboardHandler.lastClipboardContent
  timers,       \* SpecClip: pending setTimeout callbacks of pollClipboard
  intervalOn,   \* SpecClip: the setInterval of setupClipboardMonitoring is set
  coord,        \* SpecClip: lifecycle of the ComprehensiveInterceptor
  stdinInput,   \* SpecStdin: the bytes piped into stdin-wrapper.js
  stdinRest,    \* SpecStdin: the bytes not yet delivered by a 'data' event
  stdinData,    \* SpecStdin: the buffer stdinData of the wrapper
  stdoutData,   \* SpecStdin: the writes to process.stdout, in order
  stdinPc,      \* SpecStdin: "reading", "processing", "rejected" or "done"
  stdinName,    \* SpecStdin: the file name processImageBuffer made
  initPc,       \* SpecCoord: position in setupAllInterceptors
  dirs,         \* SpecCoord: the state of each directory of the watch list
  notifier,     \* SpecCoord: what spawning fswatch / inotifywait leads to
  spawnError,   \* SpecCoord: an 'error' event of the spawned child is pending
  childUp,      \* SpecCoord: the fswatch / inotifywait child is running
  watching,     \* SpecCoord: directory -> number of fs.watch watchers on it
  started,      \* SpecCoord: the watchers that setupAllInterceptors has set up
  captures,     \* SpecCoord: the file events being handled, a bag
  appeared,     \* SpecCoord: number of files that have appeared so far
  exit,         \* SpecCoord: why the node process has terminated, or "none"
  configFile,   \* SpecConfig: the file clipboard-config.json
  configCall,   \* SpecConfig: the last call of loadConfig or updateConfig
  configPrev,   \* SpecConfig: the call before it
  pidFile,      \* SpecService: the PID in clipboard-handler.pid, or NoPid
  handlers,     \* SpecService: the PIDs of the handler processes that run
  launched,     \* SpecService: number of handler processes launched so far
  scripts       \* SpecService: terminal -> the run of service.sh in it

storeVars == <<now, files, returned, clipboard, clipboardWriter>>
callVars  == <<calls, listed>>
clipVars  == <<platform, screenshotDir, seenImage, ticks, polling, lastClipboardContent, timers, intervalOn, coord>>
stdinVars == <<stdinInput, stdinRest, stdinData, stdoutData, stdinPc, stdinName>>
coordVars == <<initPc, dirs, notifier, spawnError, childUp, watching, started, captures, appeared, exit>>
configVars == <<configFile, configCall, configPrev>>
serviceVars == <<pidFile, handlers, launched, scripts>>
vars      == <<storeVars, callVars, clipVars, stdinVars, coordVars, configVars, serviceVars>>

\* What the actions of one specification leave alone.
notStore == <<clipVars, stdinVars, coordVars, configVars, serviceVars>>
notClip  == <<callVars, stdinVars, coordVars, configVars, serviceVars>>
notStdin == <<callVars, clipVars, coordVars, configVars, serviceVars, returned, clipboard, clipboardWriter>>
notCoord == <<callVars, clipVars, stdinVars, configVars, serviceVars, returned, clipboard, clipboardWriter>>
notConfig == <<files, returned, clipboard, clipboardWriter, callVars, clipVars, stdinVars, coordVars, serviceVars>>
notService == <<storeVars, callVars, clipVars, stdinVars, coordVars, configVars>>

(***************************************************************************)
(* Bounds                                                                  *)
(***************************************************************************)
MaxTime     == 1   \* the clock runs over 0..MaxTime
NumCalls    == 2   \* concurrent store calls of SpecStore
MaxStores   == 2   \* SpecClip: files the watchers open in one behaviour
MaxInFlight == 2   \* SpecClip: clipboard ticks in progress at one time

\* The dedup window of the coordinator, in milliseconds.
DedupWindow == 2000

\* No name yet; no content (getClipboardContent resolved null, or nothing stored).
NoName == <<>>
NullContent == [type |-> "null", data |-> <<>>]

\* Image payloads: the valid ones decode, "bad" matches a signature but does not.
Images  == {"imgA", "imgB"}
Corrupt == {"bad"}
Payloads == Images \cup Corrupt
Texts   == {<<"hello">>}

\* Values of uuidv4().slice(0, 8).
Suffixes == {"0a1b2c3d", "4e5f6071"}

(***************************************************************************)
(* The store: name generation and sharp(...).png().toFile(path)            *)
(***************************************************************************)
\* The four store functions and the prefix each puts in the file name.
StoreFns == {"processImagePaste", "processClipboardImage", "processImageFile", "processImageBuffer"}

\* The prefix of the file name: fixed per function; processImageBuffer takes
\* it from its `source` argument, which its one caller sets to 'stdin'.
Prefix(fn) ==
  CASE fn = "processImagePaste"     -> "screenshot"
    [] fn = "processClipboardImage" -> "clipboard"
    [] fn = "processImageFile"      -> "terminal"
    [] fn = "processImageBuffer"    -> "stdin"

\* `${prefix}-${timestamp}-${uuidv4().slice(0, 8)}.png`: the timestamp is the
\* clock at the call, the suffix is random.
FileName(prefix, ts, suffix) == <<prefix, ts, suffix, ".png">>

\* path.join(this.screenshotDir, filename)
FilePath(name) == <<"screenshotDir">> \o name

\* sharp rejects what it cannot decode, before it opens the output.
Decodes(payload) == payload \in Images

Put(f, k, v) == [x \in (DOMAIN f) \cup {k} |-> IF x = k THEN v ELSE f[x]]

\* toFile(path) opens the final path itself (create or truncate) and writes
\* into it: `open` counts the writers that have not finished, `payloads` is
\* what has been written into the file since it was last truncated by a
\* writer that found it closed, `writes` counts the calls that opened it.
BeginWrite(fs, name, payload, t) ==
  IF name \in DOMAIN fs
  THEN Put(fs, name,
           [payloads |-> IF fs[name].open > 0 THEN fs[name].payloads \cup {payload} ELSE {payload},
            open     |-> fs[name].open + 1,
            writes   |-> fs[name].writes + 1,
            created  |-> fs[name].created])
  ELSE Put(fs, name, [payloads |-> {payload}, open |-> 1, writes |-> 1, created |-> t])

EndWrite(fs, name) == [fs EXCEPT ![name].open = @ - 1]

\* A file is whole when no writer has it open and one payload went into it.
Whole(f) == f.open = 0 /\ Cardinality(f.payloads) = 1

(***************************************************************************)
(* The clipboard                                                           *)
(***************************************************************************)
EmptyClipboard == [type |-> "empty", data |-> <<>>]
ImageContent(b) == [type |-> "image", data |-> <<b>>]
TextContent(t)  == [type |-> "text", data |-> t]

\* A copy command fed the stored file instead of its path (`pbcopy < file`):
\* the clipboard then holds the image again.
CopyStoredFile(name) == ImageContent(CHOOSE b \in files[name].payloads : TRUE)

\* `echo "${filepath}" | pbcopy` (clip, xclip): the clipboard then holds the
\* path followed by the newline that echo adds.
EchoPath(name) == TextContent(FilePath(name) \o <<"\n">>)

IsWrittenPath(c) == c.type = "text" /\ Len(c.data) > 1

(***************************************************************************)
(* SpecStore: NumCalls calls of the store functions, started by a caller   *)
(* as the unit test does, running concurrently, and a reader               *)
(***************************************************************************)
CallIds == 1..NumCalls

\* The two store functions that write the path to the clipboard afterwards.
ReplacesClipboard(fn) == fn \in {"processImagePaste", "processClipboardImage"}

\* The synchronous head of a store function up to the first await: the name
\* is made from the clock and a random suffix, then sharp runs.  An input
\* that does not decode rejects, is logged and rethrown.
CallStart(c) ==
  /\ calls[c].pc = "ready"
  /\ \E r \in Suffixes :
       LET name == FileName(Prefix(calls[c].fn), now, r) IN
       IF Decodes(calls[c].payload)
       THEN /\ files' = BeginWrite(files, name, calls[c].payload, now)
            /\ calls' = [calls EXCEPT ![c].pc = "writing", ![c].name = name]
       ELSE /\ files' = files
            /\ calls' = [calls EXCEPT ![c].pc = "failed", ![c].name = name]
  /\ UNCHANGED <<now, returned, clipboard, clipboardWriter, listed, notStore>>

\* toFile resolves.  processImageFile then calls replaceFileReference, which
\* only logs, and returns the path, as processImageBuffer does; the other two
\* go on to replaceClipboardWithPath.
CallWritten(c) ==
  /\ calls[c].pc = "writing"
  /\ files' = EndWrite(files, calls[c].name)
  /\ IF ReplacesClipboard(calls[c].fn)
     THEN /\ calls' = [calls EXCEPT ![c].pc = "replacing"]
          /\ returned' = returned
     ELSE /\ calls' = [calls EXCEPT ![c].pc = "done"]
          /\ returned' = Append(returned, FilePath(calls[c].name))
  /\ UNCHANGED <<now, clipboard, clipboardWriter, listed, notStore>>

\* replaceClipboardWithPath: the copy command succeeds and the call returns
\* the path, or it fails and the call rejects (the file stays).
CallReplaced(c) ==
  /\ calls[c].pc = "replacing"
  /\ \/ /\ clipboard' = EchoPath(calls[c].name)
        /\ clipboardWriter' = "watcher"
        /\ calls' = [calls EXCEPT ![c].pc = "done"]
        /\ returned' = Append(returned, FilePath(calls[c].name))
     \/ /\ UNCHANGED <<clipboard, clipboardWriter>>
        /\ calls' = [calls EXCEPT ![c].pc = "failed"]
        /\ returned' = returned
  /\ UNCHANGED <<now, files, listed, notStore>>

\* The injective sequences over S.
Perms(S) == {s \in [1..Cardinality(S) -> S] : \A i, j \in DOMAIN s : s[i] = s[j] => i = j}

\* getScreenshotHistory: one entry per name ending in .png, with the size
\* stat reports (of a file still being written, what is there so far),
\* sorted by birthtime, newest first.
HistoryEntry(fs, name) ==
  [filename |-> name, path |-> FilePath(name), whole |-> Whole(fs[name]), created |-> fs[name].created]

getScreenshotHistory(fs) ==
  LET pngs == {n \in DOMAIN fs : n[4] = ".png"}
      entries == {HistoryEntry(fs, n) : n \in pngs}
  IN {s \in Perms(entries) : \A i, j \in DOMAIN s : i < j => s[i].created >= s[j].created}

ListScreenshots ==
  /\ \E s \in getScreenshotHistory(files) : listed' = s
  /\ listed' # listed
  /\ UNCHANGED <<storeVars, calls, notStore>>

\* The clock advances.
Tick ==
  /\ now < MaxTime
  /\ now' = now + 1
  /\ UNCHANGED <<files, returned, clipboard, clipboardWriter, callVars, clipVars, stdinVars, coordVars, configVars, serviceVars>>

\* A position in setupAllInterceptors; the second component counts the
\* directories of the watch list in step 5.
At(step) == <<step, 0>>

\* No file, and the configuration a file holds.
NoFile == [exists |-> FALSE, json |-> <<>>]
FileOf(json) == [exists |-> TRUE, json |-> json]
NoCall == [op |-> "none", arg |-> <<>>, at |-> 0, before |-> NoFile, result |-> <<>>]

\* No PID file, no handler process.
NoPid == 0
InitServiceIdle ==
  /\ pidFile = NoPid
  /\ handlers = {}
  /\ launched = 0
  /\ scripts = <<>>

InitConfigIdle ==
  /\ configFile = NoFile
  /\ configCall = NoCall
  /\ configPrev = NoCall

InitStdinIdle ==
  /\ stdinInput = <<>>
  /\ stdinRest = <<>>
  /\ stdinData = <<>>
  /\ stdoutData = <<>>
  /\ stdinPc = "idle"
  /\ stdinName = NoName

InitCoordIdle ==
  /\ initPc = At("idle")
  /\ dirs = <<>>
  /\ notifier = "none"
  /\ spawnError = FALSE
  /\ childUp = FALSE
  /\ watching = <<>>
  /\ started = {}
  /\ captures = EmptyBag
  /\ appeared = 0
  /\ exit = "none"

InitClipIdle ==
  /\ platform = "darwin"
  /\ screenshotDir = "present"
  /\ seenImage = {}
  /\ ticks = EmptyBag
  /\ polling = FALSE
  /\ lastClipboardContent = NullContent
  /\ timers = 0
  /\ intervalOn = FALSE
  /\ coord = "new"

InitStoreVars ==
  /\ now = 0
  /\ files = <<>>
  /\ returned = <<>>
  /\ clipboard = EmptyClipboard
  /\ clipboardWriter = "user"

InitStore ==
  /\ InitStoreVars
  /\ calls \in [CallIds -> [fn : StoreFns, payload : Payloads, pc : {"ready"}, name : {NoName}]]
  /\ listed = <<>>
  /\ InitClipIdle
  /\ InitStdinIdle
  /\ InitServiceIdle
  /\ InitCoordIdle
  /\ InitConfigIdle

NextStore ==
  \/ \E c \in CallIds : CallStart(c)
  \/ \E c \in CallIds : CallWritten(c)
  \/ \E c \in CallIds : CallReplaced(c)
  \/ ListScreenshots
  \/ Tick

SpecStore == InitStore /\ [][NextStore]_vars

(***************************************************************************)
(* SpecClip: ClipboardHandler.pollClipboard and the interval of            *)
(* TerminalInterceptor.setupClipboardMonitoring, both started by           *)
(* ComprehensiveInterceptor, and the user copying to the clipboard         *)
(***************************************************************************)
Platforms == {"darwin", "linux", "win32"}

\* What the user can put on the clipboard.
UserContents ==
  {EmptyClipboard} \cup {ImageContent(b) : b \in {"imgA"} \cup Corrupt} \cup {TextContent(t) : t \in Texts}

\* What the text command (pbpaste, Get-Clipboard, xclip -o) prints when it
\* succeeds: the text on the clipboard, nothing when there is none.
TextOf(clip) == IF clip.type = "text" THEN clip.data ELSE <<>>

\* getClipboardContent.  The text command succeeds and the result is
\* {type:'text'}; or it fails and, on darwin, osascript is asked for the PNG
\* data, which it has when the clipboard holds an image; every other failure
\* resolves null.  Both classes have the same code, without the win32 branch
\* in TerminalInterceptor, where win32 takes the xclip branch.
getClipboardContent(plat, clip) ==
  {TextContent(TextOf(clip)), NullContent}
    \cup (IF plat = "darwin" /\ clip.type = "image" THEN {[type |-> "image", data |-> clip.data]} ELSE {})

\* `clipboardContent && clipboardContent !== this.lastClipboardContent`: the
\* operands of !== are objects, compared by reference, and every read resolves
\* a new object literal, never the one stored before.
IsChange(content, last) == content # NullContent /\ TRUE

\* handleClipboardChange, and the condition in setupClipboardMonitoring: only
\* content of type 'image' is processed.
IsImage(content) == content # NullContent /\ content.type = "image"

StoreFnOf(owner) == IF owner = "handler" THEN "processImagePaste" ELSE "processClipboardImage"

TotalWrites(fs) ==
  LET RECURSIVE Sum(_)
      Sum(S) == IF S = {} THEN 0
                ELSE LET n == CHOOSE x \in S : TRUE IN fs[n].writes + Sum(S \ {n})
  IN Sum(DOMAIN fs)

\* The 8 hex digits a uuidv4() of a tick or of a capture can give.  The values are
\* interchangeable, so of those that no file name holds yet only one is
\* tried; every one that a file name holds is tried.
TickSuffixes(fs) ==
  LET used   == {name[3] : name \in DOMAIN fs}
      unused == Suffixes \ used
  IN  used \cup (IF unused = {} THEN {} ELSE {CHOOSE r \in unused : TRUE})

\* A tick that has started its clipboard read.
ReadingTick(owner) == [owner |-> owner, pc |-> "reading", content |-> NullContent, name |-> NoName]

Begin(t)      == ticks (+) SetToBag({t})
Move(t, next) == (ticks (-) SetToBag({t})) (+) SetToBag({next})
Drop(t)       == ticks (-) SetToBag({t})
InFlight(pc)  == {t \in BagToSet(ticks) : t.pc = pc}
Count(pc)     == BagCardinality([t \in InFlight(pc) |-> ticks[t]])
RoomForTick   == BagCardinality(ticks) < MaxInFlight

\* fs.ensureDir(this.screenshotDir) resolves when the directory exists, after
\* creating it when it was absent, and rejects when it cannot create it.
DirUntouched(dir, created) == dir
DirAfterEnsure(dir, created) == IF created THEN "present" ELSE dir
EnsureOutcomes(dir) == IF dir = "present" THEN {TRUE} ELSE {TRUE, FALSE}

\* ComprehensiveInterceptor.initialize: ensureDirectories is awaited before
\* setupAllInterceptors; when it rejects, initialize() rejects and nothing is
\* set up.
EnsureDirectories ==
  /\ coord = "new"
  /\ \E created \in EnsureOutcomes(screenshotDir) :
       /\ screenshotDir' = DirAfterEnsure(screenshotDir, created)
       /\ coord' = IF created THEN "dirsReady" ELSE "failed"
  /\ UNCHANGED <<storeVars, notClip, platform, seenImage, ticks, polling, lastClipboardContent, timers, intervalOn>>

\* ComprehensiveInterceptor.setupAllInterceptors, step 1:
\* terminalInterceptor.initialize() awaits its own ensureDirectories and,
\* after the shell hooks, sets the one-second interval.
InitTerminal ==
  /\ coord = "dirsReady"
  /\ \E created \in EnsureOutcomes(screenshotDir) :
       /\ screenshotDir' = DirAfterEnsure(screenshotDir, created)
       /\ coord' = IF created THEN "terminalUp" ELSE "failed"
       /\ intervalOn' = created
  /\ UNCHANGED <<storeVars, notClip, platform, seenImage, ticks, polling, lastClipboardContent, timers>>

\* Step 2, and handler.start() of index.js, where the ClipboardHandler runs
\* alone: start() awaits ensureScreenshotDir, which rethrows, and then
\* startPolling(): polling = true and pollClipboard() runs up to its first
\* await, the clipboard read.
StartHandler ==
  /\ coord \in {"terminalUp", "new"}
  /\ RoomForTick
  /\ \E created \in EnsureOutcomes(screenshotDir) :
       /\ screenshotDir' = DirAfterEnsure(screenshotDir, created)
       /\ coord' = IF created THEN "running" ELSE "failed"
       /\ polling' = created
       /\ ticks' = IF created THEN Begin(ReadingTick("handler")) ELSE ticks
  /\ UNCHANGED <<storeVars, notClip, platform, seenImage, lastClipboardContent, timers, intervalOn>>

\* ComprehensiveInterceptor.stop(): terminalInterceptor.stop() logs,
\* clipboardHandler.stop() sets polling = false.
Stop ==
  /\ coord = "running"
  /\ coord' = "stopped"
  /\ polling' = FALSE
  /\ UNCHANGED <<storeVars, notClip, platform, seenImage, screenshotDir, ticks, lastClipboardContent, timers, intervalOn>>

\* The user (or any other program) copies something.
UserCopy ==
  /\ coord # "new"
  /\ \E c \in UserContents : c # clipboard /\ clipboard' = c
  /\ clipboardWriter' = "user"
  /\ seenImage' = {}
  /\ UNCHANGED <<now, files, returned, notClip, platform, screenshotDir, ticks, polling, lastClipboardContent, timers, intervalOn, coord>>

\* The setTimeout callback of pollClipboard fires: it returns at once when
\* polling is false, and starts the clipboard read otherwise.
TimerFire ==
  /\ timers > 0
  /\ timers' = timers - 1
  /\ IF polling
     THEN /\ RoomForTick
          /\ ticks' = Begin(ReadingTick("handler"))
     ELSE ticks' = ticks
  /\ UNCHANGED <<storeVars, notClip, platform, seenImage, screenshotDir, polling, lastClipboardContent, intervalOn, coord>>

\* The setInterval callback of setupClipboardMonitoring fires, whatever the
\* state of the ticks before it, and starts the clipboard read.
IntervalFire ==
  /\ intervalOn
  /\ RoomForTick
  /\ ticks' = Begin(ReadingTick("terminal"))
  /\ UNCHANGED <<storeVars, notClip, platform, seenImage, screenshotDir, polling, lastClipboardContent, timers, intervalOn, coord>>

\* A tick ends.  pollClipboard schedules the next callback, also after an
\* error it caught; the interval needs nothing.
EndTickUnscheduled(t, snapshot) ==
  /\ ticks' = Drop(t)
  /\ UNCHANGED <<timers, lastClipboardContent>>
EndTick(t, snapshot) ==
  /\ ticks' = Drop(t)
  /\ IF t.owner = "handler"
     THEN /\ timers' = timers + 1
          /\ lastClipboardContent' = snapshot
     ELSE UNCHANGED <<timers, lastClipboardContent>>

\* The read resolves.  An image goes to the store function, which makes the
\* name and starts sharp; content that is no image ends the tick, and
\* pollClipboard records it in lastClipboardContent when it is not null.
ReadDone(t) ==
  /\ t.pc = "reading"
  /\ \E c \in getClipboardContent(platform, clipboard) :
       /\ seenImage' = IF IsImage(c) THEN seenImage \cup {t.owner} ELSE seenImage \ {t.owner}
       /\ LET handled == IF t.owner = "handler" THEN IsChange(c, lastClipboardContent) ELSE c # NullContent IN
          IF handled /\ IsImage(c)
          THEN /\ TotalWrites(files) < MaxStores
               /\ \E r \in TickSuffixes(files) :
                    LET name == FileName(Prefix(StoreFnOf(t.owner)), now, r) IN
                    IF Decodes(c.data[1]) /\ screenshotDir = "present"
                    THEN /\ files' = BeginWrite(files, name, c.data[1], now)
                         /\ ticks' = Move(t, [t EXCEPT !.pc = "storing", !.content = c, !.name = name])
                         /\ UNCHANGED <<timers, lastClipboardContent>>
                    ELSE /\ files' = files
                         /\ EndTick(t, lastClipboardContent)
          ELSE /\ files' = files
               /\ EndTick(t, IF handled /\ t.owner = "handler" THEN c ELSE lastClipboardContent)
  /\ UNCHANGED <<now, returned, clipboard, clipboardWriter, notClip, platform, screenshotDir, polling, intervalOn, coord>>

\* toFile resolves and replaceClipboardWithPath starts the copy command.
StoreDone(t) ==
  /\ t.pc = "storing"
  /\ files' = EndWrite(files, t.name)
  /\ ticks' = Move(t, [t EXCEPT !.pc = "writing"])
  /\ UNCHANGED <<now, returned, clipboard, clipboardWriter, notClip, platform, seenImage, screenshotDir, polling, lastClipboardContent, timers, intervalOn, coord>>

\* The copy command ends.  On success the clipboard holds the path and
\* pollClipboard records the image it had read; on failure the rejection is
\* caught and logged by the tick.
WriteDone(t) ==
  /\ t.pc = "writing"
  /\ \/ /\ clipboard' = EchoPath(t.name)
        /\ clipboardWriter' = "watcher"
        /\ seenImage' = {}
        /\ EndTick(t, t.content)
     \/ /\ UNCHANGED <<clipboard, clipboardWriter, seenImage>>
        /\ EndTick(t, lastClipboardContent)
  /\ UNCHANGED <<now, files, returned, notClip, platform, screenshotDir, polling, intervalOn, coord>>

\* The clock moves on.  Only the file names read it, so a millisecond in
\* which no file was named is not told apart from the one that follows.
ClipTick ==
  /\ \E name \in DOMAIN files : name[2] = now
  /\ Tick

InitClip ==
  /\ InitStoreVars
  /\ calls = <<>>
  /\ listed = <<>>
  /\ InitStdinIdle
  /\ InitServiceIdle
  /\ InitCoordIdle
  /\ InitConfigIdle
  /\ platform \in Platforms
  /\ screenshotDir = "absent"
  /\ seenImage = {}
  /\ ticks = EmptyBag
  /\ polling = FALSE
  /\ lastClipboardContent = NullContent
  /\ timers = 0
  /\ intervalOn = FALSE
  /\ coord = "new"

NextClip ==
  \/ EnsureDirectories
  \/ InitTerminal
  \/ StartHandler
  \/ Stop
  \/ UserCopy
  \/ TimerFire
  \/ IntervalFire
  \/ \E t \in BagToSet(ticks) : ReadDone(t)
  \/ \E t \in BagToSet(ticks) : StoreDone(t)
  \/ \E t \in BagToSet(ticks) : WriteDone(t)
  \/ ClipTick

SpecClip == InitClip /\ [][NextClip]_vars

\* main() of cli.js: `await commands[command]()` inside try/catch; a start
\* command that rejects is reported and the process exits with code 1,
\* otherwise the process stays up.
ExitZero(state) == IF state = "failed" THEN "exit 0" ELSE "up"
cliStart(state) == IF state = "failed" THEN "exit 1" ELSE "up"

\* index.js run as a script: the ClipboardHandler alone, handler.start() and,
\* on SIGINT, handler.stop().  The event loop runs a timer callback that is
\* due, and the child processes of a tick (the clipboard read, sharp, the
\* copy command) end.
NextPoll ==
  \/ StartHandler
  \/ Stop
  \/ UserCopy
  \/ TimerFire
  \/ \E t \in BagToSet(ticks) : ReadDone(t)
  \/ \E t \in BagToSet(ticks) : StoreDone(t)
  \/ \E t \in BagToSet(ticks) : WriteDone(t)
  \/ ClipTick

SpecPoll ==
  /\ InitClip
  /\ [][NextPoll]_vars
  /\ WF_vars(TimerFire)
  /\ WF_vars(\E t \in BagToSet(ticks) : ReadDone(t) \/ StoreDone(t) \/ WriteDone(t))

\* A ClipboardHandler that its owner starts again: start() called on a
\* handler that is running, or that was stopped.  ensureScreenshotDir finds
\* the directory, startPolling sets polling = true and calls pollClipboard()
\* whatever the handler was doing.  Every call adds a chain of ticks and
\* timers; the guard keeps the chains counted by MaxInFlight.
StartAgain ==
  /\ coord \in {"running", "stopped"}
  /\ screenshotDir = "present"
  /\ BagCardinality(ticks) + timers < MaxInFlight
  /\ coord' = "running"
  /\ polling' = TRUE
  /\ ticks' = Begin(ReadingTick("handler"))
  /\ UNCHANGED <<storeVars, notClip, platform, seenImage, screenshotDir, lastClipboardContent, timers, intervalOn>>

NextRestart ==
  \/ StartHandler
  \/ StartAgain
  \/ Stop
  \/ UserCopy
  \/ TimerFire
  \/ \E t \in BagToSet(ticks) : ReadDone(t)
  \/ \E t \in BagToSet(ticks) : StoreDone(t)
  \/ \E t \in BagToSet(ticks) : WriteDone(t)
  \/ ClipTick

SpecRestart == InitClip /\ [][NextRestart]_vars

(***************************************************************************)
(* Claims about the store functions (SpecStore)                            *)
(***************************************************************************)
AllStored == \A c \in CallIds : calls[c].pc \in {"replacing", "done", "failed"}

DistinctValidPayloads ==
  /\ \A c \in CallIds : Decodes(calls[c].payload)
  /\ \A c, d \in CallIds : c # d => calls[c].payload # calls[d].payload

\* C3: any two store calls return different paths, and no store call opens
\* a file that an earlier call has written.
C3_DistinctPathsNoOverwrite ==
  /\ \A i, j \in DOMAIN returned : i # j => returned[i] # returned[j]
  /\ \A n \in DOMAIN files : files[n].writes <= 1

\* C4: no file ever holds a mix of two payloads, and once concurrent calls
\* with distinct valid payloads have all stored, there are as many files as
\* calls, each whole.
C4_ConcurrentStoresDistinctWhole ==
  /\ \A n \in DOMAIN files : Cardinality(files[n].payloads) = 1
  /\ (AllStored /\ DistinctValidPayloads) =>
        /\ Cardinality(DOMAIN files) = NumCalls
        /\ \A n \in DOMAIN files : Whole(files[n])

\* C5: a listing of the screenshot directory never shows, under its final
\* name, a file that is still being written.
C5_ReaderSeesOnlyWholeFiles == \A i \in DOMAIN listed : listed[i].whole

\* C23: a store whose generated name is already in the screenshot directory
\* does not write under that name (it takes another suffix, or fails after
\* three attempts): a file that exists is never opened for writing again and
\* keeps its content.
C23_ExistingFileNotOverwritten ==
  [][\A n \in DOMAIN files :
        /\ files'[n].writes = files[n].writes
        /\ files'[n].payloads = files[n].payloads]_vars

(***************************************************************************)
(* Claims about the clipboard watchers (SpecClip)                          *)
(***************************************************************************)
\* C1: a tick whose read completes while the clipboard holds what a watcher
\* wrote back starts no store and writes nothing to the clipboard.
C1_NoLoopOnOwnWrite ==
  [][(clipboardWriter = "watcher" /\ Count("reading")' < Count("reading"))
       => /\ files' = files
          /\ clipboard' = clipboard
          /\ Count("storing")' = Count("storing")
          /\ Count("writing")' = Count("writing")]_vars

\* C1, witness: the clipboard holds the path a watcher wrote and the handler
\* has read exactly that text on a later tick.
C1_Witness ==
  /\ clipboardWriter = "watcher"
  /\ IsWrittenPath(clipboard)
  /\ lastClipboardContent = clipboard

\* C2: no two files written by different watchers hold the same image bytes
\* when they were created within the dedup window of one another.
C2_OnlyFirstDetectionPersisted ==
  \A n1, n2 \in DOMAIN files :
    (n1[1] # n2[1] /\ files[n1].payloads \cap files[n2].payloads # {})
      => ~ (files[n1].created - files[n2].created < DedupWindow
            /\ files[n2].created - files[n1].created < DedupWindow)

\* C13: the screenshot directory exists whenever start() or initialize()
\* has gone past its directory step, and no watcher is set, no tick runs and
\* no file is stored while the directory is absent.
C13_DirectoryBeforeWatchers ==
  /\ coord \in {"dirsReady", "terminalUp", "running", "stopped"} => screenshotDir = "present"
  /\ (polling \/ intervalOn \/ timers > 0 \/ ticks # EmptyBag \/ files # <<>>)
        => screenshotDir = "present"

\* C13, witness: the directory was absent, start() has created it, and a
\* tick that began afterwards has stored a file in it.
C13_Witness ==
  /\ coord = "running"
  /\ screenshotDir = "present"
  /\ \E n \in DOMAIN files : Whole(files[n])

\* The ticks of a watcher that are storing.
StoringBy(owner) ==
  BagCardinality([t \in {x \in InFlight("storing") : x.owner = owner} |-> ticks[t]])

\* C18: a watcher whose previous read resolved the image that is still on
\* the clipboard starts no store on its next read of it: an image that stays
\* on the clipboard is stored once.
C18_UnchangedImageStoredOnce ==
  [][\A owner \in seenImage : StoringBy(owner)' <= StoringBy(owner)]_vars

\* C19: when a tick of the handler ends its read of a clipboard that holds no
\* image, nothing but the snapshot changes, and the snapshot then records
\* what is on the clipboard, or nothing when the clipboard is empty or could
\* not be read; it does not keep the content of an earlier tick.
C19_SnapshotFollowsTextOrEmpty ==
  [][(clipboard.type # "image" /\ timers' = timers + 1 /\ Count("reading")' < Count("reading"))
       => /\ lastClipboardContent' \in {TextContent(TextOf(clipboard)), TextContent(<<>>), NullContent}
          /\ files' = files
          /\ clipboard' = clipboard]_vars

PathOfWholeFile(content) ==
  \E name \in DOMAIN files : content = EchoPath(name) /\ Whole(files[name])

\* C20: within a tick the store completes first, then the path is written to
\* the clipboard, then the snapshot is updated: a watcher replaces the
\* clipboard only with the path of a completely written file, the snapshot
\* takes an image only in the step that wrote its path, and a tick that ends
\* at its read or at a failed copy command leaves the clipboard as it was.
C20_StoreThenPathThenSnapshot ==
  [][/\ (Count("writing")' < Count("writing") /\ clipboard' # clipboard)
          => PathOfWholeFile(clipboard') /\ files' = files
     /\ (lastClipboardContent' # lastClipboardContent /\ IsImage(lastClipboardContent'))
          => Count("writing")' < Count("writing") /\ PathOfWholeFile(clipboard')
     /\ (Count("reading")' < Count("reading") \/ Count("storing")' < Count("storing"))
          => clipboard' = clipboard]_vars

\* C21: a watcher writes to the clipboard only in a tick whose read was
\* classified as an image, a read of anything else starts no store, and the
\* write never replaces text, such as a path, that is on the clipboard.
C21_WritesOnlyOverImage ==
  [][/\ (Count("writing")' < Count("writing") /\ clipboard' # clipboard)
          => /\ \E t \in InFlight("writing") : IsImage(t.content) /\ clipboard' = EchoPath(t.name)
             /\ clipboard.type # "text"
     /\ (Count("reading")' < Count("reading") /\ files' # files)
          => clipboard.type = "image"]_vars

HandlerTicks == {t \in BagToSet(ticks) : t.owner = "handler"}

\* C22: no tick ends the poll loop, whether its read failed, its handling
\* threw or it succeeded: while polling is true a tick is in flight or the
\* next callback is scheduled, every tick that ends schedules the next
\* callback, a tick that ends at its read or at a failed copy command leaves
\* files and clipboard as they were, and a scheduled callback eventually
\* starts the next tick.
C22_PollLoopGoesOn ==
  /\ [](polling => (HandlerTicks # {} \/ timers > 0))
  /\ [][(HandlerTicks' = {} /\ HandlerTicks # {})
          => /\ timers' = timers + 1
             /\ (Count("writing") = 0 \/ clipboard' = clipboard) => UNCHANGED <<files, clipboard>>]_vars
  /\ (polling /\ timers > 0) ~> (~polling \/ HandlerTicks # {})

\* C22, witness: the tick that read an image sharp cannot decode has failed,
\* and the next tick is reading.
C22_Witness ==
  /\ polling
  /\ clipboard = ImageContent("bad")
  /\ "handler" \in seenImage
  /\ ReadingTick("handler") \in BagToSet(ticks)
  /\ files = <<>>

\* C32: when the screenshot directory cannot be created, start() rejects:
\* polling stays false, no tick and no poll timer exists, nothing is stored,
\* and the start command of the CLI exits with a non-zero code.
C32_NoDirectoryNoStart ==
  /\ coord = "failed" =>
        /\ screenshotDir = "absent"
        /\ ~polling /\ timers = 0 /\ ticks = EmptyBag
        /\ files = <<>> /\ clipboardWriter = "user"
        /\ cliStart(coord) \notin {"up", "exit 0"}
  /\ screenshotDir = "absent" => cliStart(coord) # "up" \/ coord = "new"

\* C32, witness: start() has rejected because the directory could not be
\* created.
C32_Witness ==
  /\ coord = "failed" /\ screenshotDir = "absent"
  /\ cliStart(coord) = "exit 1"
  /\ ~polling /\ timers = 0

\* C36: whatever the sequence of start() and stop() calls on one
\* ClipboardHandler, at most one poll chain is active: at most one poll
\* timer is pending or one tick is in progress.
C36_OnePollChain ==
  BagCardinality(ticks) + timers <= 1

\* Ticks of one watcher that are in progress.
TicksOf(owner) ==
  LET mine == {t \in BagToSet(ticks) : t.owner = owner}
  IN  BagCardinality([t \in mine |-> ticks[t]])

\* C37: ticks of one clipboard watcher never overlap: neither the handler
\* nor the interval-driven monitor of the terminal interceptor has two ticks
\* in progress at one time.
C37_TicksNeverOverlap ==
  \A owner \in {"handler", "terminal"} : TicksOf(owner) <= 1

\* The parts of C39.  After stop(): no clipboard read, store or clipboard
\* write is started;
NothingStartsAfterStop ==
  [][coord = "stopped"
       => /\ Count("reading")' <= Count("reading")
          /\ TotalWrites(files') = TotalWrites(files)
          /\ Count("writing")' <= Count("writing")]_vars
\* at most one callback is scheduled, and a callback that fires does nothing;
StoppedCallbackReturns ==
  /\ [](coord = "stopped" => timers + BagCardinality(ticks) <= 1)
  /\ [][(coord = "stopped" /\ timers' < timers) => UNCHANGED <<storeVars, ticks, lastClipboardContent>>]_vars
\* and the chain comes to its end.
ChainTerminates ==
  (coord = "stopped") ~> [](timers = 0 /\ ticks = EmptyBag)

\* C39: after stop() of a ClipboardHandler that is not started again the
\* handler starts no clipboard read, no store and no clipboard write, at
\* most one scheduled callback still fires and returns without doing
\* anything, and eventually no poll timer is pending.
C39_ChainEndsAfterStop ==
  /\ NothingStartsAfterStop
  /\ StoppedCallbackReturns
  /\ ChainTerminates

\* C6: a watcher's write to the clipboard replaces only the image that the
\* writing tick had read.
C6_ReplaceOnlyWhatWasRead ==
  [][(clipboardWriter' = "watcher" /\ clipboard' # clipboard)
       => \E t \in InFlight("writing") : clipboard' = EchoPath(t.name) /\ clipboard = t.content]_vars

\* C8: once stop() has returned no tick starts or goes on, no file is
\* written and no watcher writes to the clipboard.
C8_QuietAfterStop ==
  [][coord = "stopped"
       => /\ ticks' = ticks
          /\ files' = files
          /\ (clipboard' # clipboard => clipboardWriter' = "user")]_vars

(***************************************************************************)
(* SpecStdin: the stdin-wrapper.js that setupStdinMonitoring generates     *)
(***************************************************************************)
MaxFill  == 6   \* bytes that follow the head of an input
MaxChunk == 3   \* bytes one 'data' event delivers

\* The signatures of isImageData, in its order: PNG, JPEG, GIF, BMP, WEBP.
Signatures ==
  {<<137, 80, 78, 71>>, <<255, 216, 255>>, <<71, 73, 70>>, <<66, 77>>, <<82, 73, 70, 70>>}

MinImageLength == 8

\* buffer.subarray(0, sig.length).equals(Buffer.from(sig))
FirstByteOnly(buffer, sig) == Len(buffer) > 0 /\ buffer[1] = sig[1]
StartsWith(buffer, sig) ==
  SubSeq(buffer, 1, IF Len(sig) < Len(buffer) THEN Len(sig) ELSE Len(buffer)) = sig

SignatureOnly(buffer) == \E sig \in Signatures : StartsWith(buffer, sig)
isImageData(buffer) ==
  IF Len(buffer) < MinImageLength THEN FALSE
  ELSE \E sig \in Signatures : StartsWith(buffer, sig)

\* The inputs: a head that is a signature, a signature with one byte
\* replaced, a signature and one more byte with the first byte replaced or
\* not, one byte or nothing, followed by the bytes 1, 2, ..., n.
SigBytes == {0} \cup UNION {{sig[i] : i \in DOMAIN sig} : sig \in Signatures}
Extended == {sig \o <<b>> : sig \in Signatures, b \in SigBytes}
\* Two RIFF containers: a WEBP image and a WAVE sound file.
RiffHeads ==
  {<<82, 73, 70, 70, 0, 0, 0, 0, 87, 69, 66, 80>>, <<82, 73, 70, 70, 0, 0, 0, 0, 87, 65, 86, 69>>}
Heads ==
  Signatures
    \cup RiffHeads
    \cup UNION {{[sig EXCEPT ![i] = b] : i \in DOMAIN sig, b \in SigBytes} : sig \in Signatures}
    \cup {[e EXCEPT ![1] = b] : e \in Extended, b \in SigBytes}
    \cup {<<b>> : b \in SigBytes} \cup {<<>>}
StdinInputs == {h \o [i \in 1..n |-> i] : h \in Heads, n \in 0..MaxFill}

\* The 'data' handler: stdinData = Buffer.concat([stdinData, chunk]).
KeepLastChunk(data, chunk) == chunk
ConcatChunk(data, chunk) == data \o chunk

StdinChunk ==
  /\ stdinPc = "reading"
  /\ stdinRest # <<>>
  /\ \E k \in 1..MaxChunk :
       /\ k <= Len(stdinRest)
       /\ stdinData' = ConcatChunk(stdinData, SubSeq(stdinRest, 1, k))
       /\ stdinRest' = SubSeq(stdinRest, k + 1, Len(stdinRest))
  /\ UNCHANGED <<now, files, stdinInput, stdoutData, stdinPc, stdinName, notStdin>>

\* The 'end' handler: image data goes to processImageBuffer(stdinData,
\* 'stdin'), which makes the name and starts sharp, which writes the file or
\* cannot decode the bytes; anything else is written to stdout as buffered.
StdinEnd ==
  /\ stdinPc = "reading"
  /\ stdinRest = <<>>
  /\ IF isImageData(stdinData)
     THEN /\ \E r \in Suffixes : stdinName' = FileName(Prefix("processImageBuffer"), now, r)
          /\ \/ /\ stdinPc' = "processing"
                /\ files' = BeginWrite(files, stdinName', stdinData, now)
             \/ /\ stdinPc' = "rejected"
                /\ files' = files
          /\ stdoutData' = stdoutData
     ELSE /\ stdinPc' = "done"
          /\ stdoutData' = Append(stdoutData, stdinData)
          /\ UNCHANGED <<files, stdinName>>
  /\ UNCHANGED <<now, stdinInput, stdinRest, stdinData, notStdin>>

\* processImageBuffer settles: resolved, the path is written to stdout;
\* rejected (sharp could not decode the bytes), the buffered bytes are.
PathAndData(resolved, path, data) == IF resolved THEN path \o data ELSE data
WrapperOutput(resolved, path, data) == IF resolved THEN path ELSE data

StdinProcessed ==
  /\ stdinPc \in {"processing", "rejected"}
  /\ stdinPc' = "done"
  /\ files' = IF stdinPc = "processing" THEN EndWrite(files, stdinName) ELSE files
  /\ stdoutData' = Append(stdoutData, WrapperOutput(stdinPc = "processing", FilePath(stdinName), stdinData))
  /\ UNCHANGED <<now, stdinInput, stdinRest, stdinData, stdinName, notStdin>>

StdinTick ==
  /\ stdinPc # "done"
  /\ Tick

InitStdin ==
  /\ now = 0
  /\ files = <<>>
  /\ returned = <<>>
  /\ clipboard = EmptyClipboard
  /\ clipboardWriter = "user"
  /\ calls = <<>>
  /\ listed = <<>>
  /\ InitClipIdle
  /\ InitCoordIdle
  /\ InitConfigIdle
  /\ InitServiceIdle
  /\ stdinInput \in StdinInputs
  /\ stdinRest = stdinInput
  /\ stdinData = <<>>
  /\ stdoutData = <<>>
  /\ stdinPc = "reading"
  /\ stdinName = NoName

NextStdin ==
  \/ StdinChunk
  \/ StdinEnd
  \/ StdinProcessed
  \/ StdinTick

SpecStdin == InitStdin /\ [][NextStdin]_vars

\* C7: when the bytes piped in are not classified as image data, the wrapper
\* writes nothing before the end of the input, and then exactly the bytes it
\* was given, in one write; it stores no file.
C7_PassThrough ==
  ~ isImageData(stdinInput) =>
     /\ files = <<>>
     /\ stdinPc \notin {"processing", "rejected"}
     /\ stdinPc = "reading" => stdoutData = <<>>
     /\ stdinPc = "done" => stdoutData = <<stdinInput>>

\* C7, witness: an input of several chunks that starts with a signature but
\* is too short to be an image has been passed through.
C7_Witness ==
  /\ stdinPc = "done"
  /\ ~ isImageData(stdinInput)
  /\ Len(stdinInput) > MaxChunk
  /\ \E sig \in Signatures : StartsWith(stdinInput, sig)
  /\ stdoutData = <<stdinInput>>

\* The 'end' handler took the image branch: processImageBuffer made a name.
TookImageBranch == stdinName # NoName

\* C11: an input shorter than 8 bytes, whatever its content, is never
\* classified as image data: no prefix of it is, the 'end' handler never takes
\* the image branch for it, and it ends passed through.
C11_ShortBufferNotImage ==
  Len(stdinInput) < 8 =>
     /\ \A k \in 0..Len(stdinInput) : ~ isImageData(SubSeq(stdinInput, 1, k))
     /\ ~ TookImageBranch
     /\ stdinPc \in {"reading", "done"}
     /\ stdinPc = "done" => stdoutData = <<stdinInput>>

\* C11, witness: seven bytes that begin with the complete PNG signature have
\* been passed through.
C11_Witness ==
  /\ stdinPc = "done"
  /\ stdinInput = <<137, 80, 78, 71, 1, 2, 3>>
  /\ stdoutData = <<stdinInput>>

\* The signatures the claim C12 names: PNG, JPEG, GIF, BMP.
NamedSignatures == {<<137, 80, 78, 71>>, <<255, 216, 255>>, <<71, 73, 70>>, <<66, 77>>}

\* The buffer is a buffer that begins with the signature, with the first
\* signature byte replaced by another value.
FirstByteReplaced(buffer, sig) ==
  /\ Len(buffer) >= Len(sig)
  /\ buffer[1] # sig[1]
  /\ SubSeq(buffer, 2, Len(sig)) = Tail(sig)

BeginsWithNamed(buffer) == \E sig \in NamedSignatures : StartsWith(buffer, sig)

\* The end of a run agrees with the classifier: the image branch is taken
\* exactly for the inputs that isImageData accepts.
ClassifiedAtEnd(isImage) ==
  /\ isImageData(stdinInput) = isImage
  /\ stdinPc # "reading" => TookImageBranch = isImage

C27_UndecodableDropped ==
  (TookImageBranch /\ stdinPc = "done" /\ stdinName \notin DOMAIN files) =>
     /\ files = <<>>
     /\ stdoutData = <<>>

\* The tag 'WEBP' at offset 8 of a RIFF container.
HasWebpTag(buffer) == Len(buffer) >= 12 /\ SubSeq(buffer, 9, 12) = <<87, 69, 66, 80>>

\* C24: an input that begins with the RIFF signature 52 49 46 46 is
\* classified as an image exactly when its bytes 8 to 11 are 'WEBP'.
C24_RiffNeedsWebpTag ==
  StartsWith(stdinInput, <<82, 73, 70, 70>>) => ClassifiedAtEnd(HasWebpTag(stdinInput))

(***************************************************************************)
(* SpecCoord: ComprehensiveInterceptor.initialize, the directory watchers  *)
(* it sets up, the files that appear in the watched directories, and the   *)
(* process monitor                                                         *)
(***************************************************************************)
MaxEvents == 1   \* files that appear in watched directories in one behaviour

\* setupFileWatching's watch list, in its order.
WatchDirs == <<"cwd", "Downloads", "Desktop", "Pictures">>
DirNames  == {WatchDirs[i] : i \in DOMAIN WatchDirs}
DirStates == {"ok", "missing", "unwatchable"}

\* What appears in a directory: an image without an image extension, a file
\* with an image extension that sharp cannot decode, a file that is no image;
\* and, for the single watcher of SpecWatch, also an SVG drawing, which sharp
\* decodes.
\* StoredKind is a file that a store has written into the screenshot
\* directory, a PNG such as terminal-<time>-<id>.png.
FileKinds == {"photo", "broken.png", "notes.txt"}
WatchKinds == FileKinds \cup {"drawing.svg"}
StoredKind == "screenshot.png"
HasImageExtension(kind) == kind \in {"broken.png", "drawing.svg", StoredKind}
HasImageMime(kind)      == kind \in {"photo", "drawing.svg", StoredKind}
DecodesFile(kind)       == kind \in {"photo", "drawing.svg", StoredKind}

\* isImageFile: an extension of the list answers true at once; otherwise
\* `file --mime-type` decides.
isImageFile(kind) == IF HasImageExtension(kind) THEN TRUE ELSE HasImageMime(kind)

\* fs.pathExists(dir) in setupFileWatching.
pathExists(dirState) == dirState # "missing"

\* setupDirectoryWatcher: fs.watch is called inside try/catch, so a directory
\* that cannot be watched is logged and skipped.
WatchOrReject(dirState) == IF dirState = "ok" THEN "watching" ELSE "rejected"
setupDirectoryWatcher(dirState) == IF dirState = "ok" THEN "watching" ELSE "skipped"

\* A rejected promise that nothing handles: node before version 15 prints a
\* warning and goes on, node from version 15 on ends the process.
UnhandledRejection(what) == {"none", what}

Alive == exit = "none"

\* The effect of one setupDirectoryWatcher(dir) call.
AddWatch(d) ==
  LET r == setupDirectoryWatcher(dirs[d]) IN
  /\ watching' = IF r = "watching" THEN [watching EXCEPT ![d] = @ + 1] ELSE watching
  /\ exit' \in (IF r = "rejected" THEN UnhandledRejection("rejected: setupDirectoryWatcher") ELSE {"none"})

\* ensureDirectories, then step 1 (terminalInterceptor.initialize) and step 2
\* (clipboardHandler.start) of setupAllInterceptors: see SpecClip.
SetupClipboardWatchers ==
  /\ Alive /\ initPc = At("new")
  /\ started' = started \cup {"terminal", "clipboard"}
  /\ initPc' = At("dragdrop")
  /\ UNCHANGED <<now, files, dirs, notifier, spawnError, childUp, watching, captures, appeared, exit, notCoord>>

\* Step 3, setupDragDropMonitoring: spawn returns a child; when the program
\* is missing or cannot be run the child emits 'error' later.
SetupDragDrop ==
  /\ Alive /\ initPc = At("dragdrop")
  /\ IF notifier = "ok" THEN childUp' = TRUE /\ spawnError' = FALSE
                        ELSE childUp' = FALSE /\ spawnError' = TRUE
  /\ started' = started \cup {"dragdrop"}
  /\ initPc' = At("stdin")
  /\ UNCHANGED <<now, files, dirs, notifier, watching, captures, appeared, exit, notCoord>>

\* The child's 'error' handler: ENOENT falls back to
\* setupDirectoryWatcher(process.cwd()), any other error is logged.
ThrowSpawnError(code) == "thrown"
OnSpawnError(code) == IF code = "ENOENT" THEN "fallback" ELSE "logged"

SpawnErrorEvent ==
  /\ Alive /\ spawnError
  /\ spawnError' = FALSE
  /\ LET r == OnSpawnError(notifier) IN
       IF r = "fallback"
       THEN AddWatch("cwd")
       ELSE /\ watching' = watching
            /\ exit' = IF r = "thrown" THEN "uncaught: spawn" ELSE exit
  /\ UNCHANGED <<now, files, initPc, dirs, notifier, childUp, started, captures, appeared, notCoord>>

\* Step 4, setupStdinMonitoring writes stdin-wrapper.js.
SetupStdin ==
  /\ Alive /\ initPc = At("stdin")
  /\ started' = started \cup {"stdin"}
  /\ initPc' = <<"filewatch", 1>>
  /\ UNCHANGED <<now, files, dirs, notifier, spawnError, childUp, watching, captures, appeared, exit, notCoord>>

\* Step 5, setupFileWatching, one directory of the list per step: a
\* directory that exists is handed to setupDirectoryWatcher.
SetupFileWatching ==
  /\ Alive /\ initPc[1] = "filewatch"
  /\ LET d == WatchDirs[initPc[2]] IN
       IF pathExists(dirs[d]) THEN AddWatch(d) ELSE UNCHANGED <<watching, exit>>
  /\ initPc' = IF initPc[2] < Len(WatchDirs) THEN <<"filewatch", initPc[2] + 1>> ELSE At("process")
  /\ started' = IF initPc[2] < Len(WatchDirs) THEN started ELSE started \cup {"filewatch"}
  /\ UNCHANGED <<now, files, dirs, notifier, spawnError, childUp, captures, appeared, notCoord>>

\* Step 6, setupProcessMonitoring sets its interval; initialize() resolves.
SetupProcessMonitoring ==
  /\ Alive /\ initPc = At("process")
  /\ started' = started \cup {"process"}
  /\ initPc' = At("done")
  /\ UNCHANGED <<now, files, dirs, notifier, spawnError, childUp, watching, captures, appeared, exit, notCoord>>

\* The interval of setupProcessMonitoring: getRunningProcesses resolves the
\* process list, or [] when ps fails; the callback only logs.
ProcessMonitorTick ==
  /\ Alive /\ "process" \in started
  /\ UNCHANGED vars

\* An event in a directory that something watches.  Every fs.watch watcher
\* on the directory gets the event and, for a 'rename' with a file name, sets
\* its 100 ms timer; when a file has appeared the fswatch / inotifywait
\* child, which watches the working directory, prints a line that its
\* 'data' handler takes up at once.
Capture(kind, via, ev) ==
  [kind |-> kind, pc |-> IF via = "fs.watch" THEN "settle" ELSE "classify", name |-> NoName,
   via |-> via, event |-> ev, settled |-> FALSE]

Copies(c, n) == IF n = 0 THEN EmptyBag ELSE [x \in {c} |-> n]

\* What fs.watch reports: 'rename' when a file appears (with its name, or
\* without one on platforms that do not provide it) and 'change' when the
\* content of a file changes.
WatchEvents == [type : {"rename", "change"}, named : BOOLEAN] \ {[type |-> "change", named |-> FALSE]}
FileCreated == [type |-> "rename", named |-> TRUE]

\* The fs.watch callback: `if (eventType === 'rename' && filename)`.
AcceptEveryEvent(ev) == TRUE
WatchCallback(ev) == ev.type = "rename" /\ ev.named

EventArrives(kinds) ==
  /\ Alive
  /\ \E d \in DirNames, kind \in kinds, ev \in WatchEvents :
       /\ dirs[d] = "ok"
       /\ watching[d] > 0 \/ (childUp /\ d = "cwd")
       /\ captures' = captures
            (+) Copies(Capture(kind, "fs.watch", ev), IF WatchCallback(ev) THEN watching[d] ELSE 0)
            (+) Copies(Capture(kind, "child", ev), IF childUp /\ d = "cwd" /\ ev = FileCreated THEN 1 ELSE 0)
  /\ appeared' = appeared + 1
  /\ UNCHANGED <<now, files, initPc, dirs, notifier, spawnError, childUp, watching, started, exit, notCoord>>

FileAppears ==
  /\ appeared < MaxEvents
  /\ EventArrives(FileKinds)

\* The 100 ms timer of an fs.watch event fires.
SettleElapsed(c) ==
  /\ Alive /\ c.pc = "settle"
  /\ captures' = (captures (-) SetToBag({c})) (+) SetToBag({[c EXCEPT !.pc = "classify", !.settled = TRUE]})
  /\ UNCHANGED <<now, files, initPc, dirs, notifier, spawnError, childUp, watching, started, appeared, exit, notCoord>>

\* What the watchers see of a store.  sharp's toFile creates the file when
\* no file has the name, and fs.watch on the directory of the file reports
\* 'rename' with the name to each of its watchers; over an existing file it
\* truncates, which is a 'change'.
StoreSeen(name, watched) ==
  IF watched /\ name \notin DOMAIN files
  THEN Copies(Capture(StoredKind, "fs.watch", FileCreated), watching["cwd"])
  ELSE EmptyBag

\* isImageFile, and for an image processImageFile ->
\* terminalInterceptor.processImageFile: the name is made and sharp runs.
\* When sharp rejects, both functions log and rethrow, and the async callback
\* that awaited them (of setTimeout, or of the 'data' event) rejects with
\* nothing to handle it.
ClassifyFile(c, watched) ==
  /\ IF isImageFile(c.kind)
     THEN IF DecodesFile(c.kind)
          THEN /\ TotalWrites(files) < MaxStores
               /\ \E r \in TickSuffixes(files) :
                    LET name == FileName(Prefix("processImageFile"), now, r) IN
                    /\ files' = BeginWrite(files, name, c.kind, now)
                    /\ captures' = (captures (-) SetToBag({c}))
                                     (+) SetToBag({[c EXCEPT !.pc = "storing", !.name = name]})
                                     (+) StoreSeen(name, watched)
               /\ exit' = exit
          ELSE /\ files' = files
               /\ captures' = captures (-) SetToBag({c})
               /\ exit' \in UnhandledRejection("rejected: processImageFile")
     ELSE /\ files' = files
          /\ captures' = captures (-) SetToBag({c})
          /\ exit' = exit
  /\ UNCHANGED <<now, initPc, dirs, notifier, spawnError, childUp, watching, started, appeared, notCoord>>

\* The screenshot directory is none of the watched directories and lies in
\* none of them.
Classify(c) ==
  /\ Alive /\ c.pc = "classify"
  /\ ClassifyFile(c, FALSE)

\* The screenshot directory is the watched working directory.
ClassifyInTree(c) ==
  /\ Alive /\ c.pc = "classify"
  /\ ClassifyFile(c, TRUE)

\* toFile resolves; replaceFileReference logs.
Stored(c) ==
  /\ Alive /\ c.pc = "storing"
  /\ files' = EndWrite(files, c.name)
  /\ captures' = captures (-) SetToBag({c})
  /\ UNCHANGED <<now, initPc, dirs, notifier, spawnError, childUp, watching, started, appeared, exit, notCoord>>

\* The clock moves on.  Only the file names read it, so a millisecond in
\* which no file was named is not told apart from the one that follows.
CoordTick ==
  /\ Alive
  /\ \E name \in DOMAIN files : name[2] = now
  /\ Tick

InitCoord ==
  /\ now = 0
  /\ files = <<>>
  /\ returned = <<>>
  /\ clipboard = EmptyClipboard
  /\ clipboardWriter = "user"
  /\ calls = <<>>
  /\ listed = <<>>
  /\ InitClipIdle
  /\ InitStdinIdle
  /\ InitServiceIdle
  /\ InitConfigIdle
  /\ initPc = At("new")
  /\ dirs \in {ds \in [DirNames -> DirStates] : ds["cwd"] = "ok"}
  /\ notifier \in {"ok", "ENOENT", "EACCES"}
  /\ spawnError = FALSE
  /\ childUp = FALSE
  /\ watching = [d \in DirNames |-> 0]
  /\ started = {}
  /\ captures = EmptyBag
  /\ appeared = 0
  /\ exit = "none"

NextCoord ==
  \/ SetupClipboardWatchers
  \/ SetupDragDrop
  \/ SpawnErrorEvent
  \/ SetupStdin
  \/ SetupFileWatching
  \/ SetupProcessMonitoring
  \/ ProcessMonitorTick
  \/ FileAppears
  \/ \E c \in BagToSet(captures) : SettleElapsed(c)
  \/ \E c \in BagToSet(captures) : Classify(c)
  \/ \E c \in BagToSet(captures) : Stored(c)
  \/ CoordTick

SpecCoord == InitCoord /\ [][NextCoord]_vars

(***************************************************************************)
(* SpecWatch: one fs.watch watcher, on the working directory, after        *)
(* initialize() has resolved, and the events of that directory             *)
(***************************************************************************)
MaxWatchEvents == 3   \* events in the watched directory in one behaviour

\* The state in which initialize() leaves the interceptor when the notifier
\* program cannot be run and only the working directory exists: the one
\* watcher is that of setupFileWatching.
InitWatch ==
  /\ now = 0
  /\ files = <<>>
  /\ returned = <<>>
  /\ clipboard = EmptyClipboard
  /\ clipboardWriter = "user"
  /\ calls = <<>>
  /\ listed = <<>>
  /\ InitClipIdle
  /\ InitStdinIdle
  /\ InitServiceIdle
  /\ InitConfigIdle
  /\ initPc = At("done")
  /\ dirs = [d \in DirNames |-> IF d = "cwd" THEN "ok" ELSE "missing"]
  /\ notifier = "EACCES"
  /\ spawnError = FALSE
  /\ childUp = FALSE
  /\ watching = [d \in DirNames |-> IF d = "cwd" THEN 1 ELSE 0]
  /\ started = {"terminal", "clipboard", "dragdrop", "stdin", "filewatch", "process"}
  /\ captures = EmptyBag
  /\ appeared = 0
  /\ exit = "none"

WatchEvent ==
  /\ appeared < MaxWatchEvents
  /\ EventArrives(WatchKinds)

NextWatch ==
  \/ WatchEvent
  \/ \E c \in BagToSet(captures) : SettleElapsed(c)
  \/ \E c \in BagToSet(captures) : Classify(c)
  \/ \E c \in BagToSet(captures) : Stored(c)
  \/ CoordTick

SpecWatch == InitWatch /\ [][NextWatch]_vars

\* The same watcher when the screenshot directory is the working directory
\* (options.screenshotDir = process.cwd()).
NextTree ==
  \/ WatchEvent
  \/ \E c \in BagToSet(captures) : SettleElapsed(c)
  \/ \E c \in BagToSet(captures) : ClassifyInTree(c)
  \/ \E c \in BagToSet(captures) : Stored(c)
  \/ CoordTick

SpecTree == InitWatch /\ [][NextTree]_vars

\* C38: a file that a store writes into the screenshot directory triggers no
\* capture, and the files stored are no more than the files that appeared
\* from outside, also when the screenshot directory is watched.
C38_StoreTriggersNoCapture ==
  /\ \A c \in BagToSet(captures) : c.kind # StoredKind
  /\ Cardinality(DOMAIN files) <= appeared

\* C28: every callback of the directory watcher that is in flight belongs to
\* a 'rename' event that carried a file name, and it classifies the file and
\* stores it only after its settle delay has elapsed.
C28_SettleBeforeClassify ==
  \A c \in BagToSet(captures) :
     c.via = "fs.watch" =>
        /\ c.event = FileCreated
        /\ c.pc \in {"classify", "storing"} => c.settled
        /\ c.pc = "settle" => ~c.settled /\ c.name = NoName

\* C28, witness: the file of a 'rename' event is being stored, after its
\* delay.
C28_Witness ==
  \E c \in BagToSet(captures) :
     c.via = "fs.watch" /\ c.pc = "storing" /\ c.settled /\ c.name \in DOMAIN files

\* C33: the extension of a stored file follows the format of its input:
\* .svg for an SVG drawing, .png for every raster image.
C33_ExtensionFollowsFormat ==
  \A name \in DOMAIN files : \A input \in files[name].payloads :
     name[4] = (IF input = "drawing.svg" THEN ".svg" ELSE ".png")

\* C34: the only effect of processing a detected file on the screenshot
\* directory is one new file: a step that changes the directory adds one
\* name and leaves every file that was there as it was, or completes the
\* writing of a file without changing what goes into it.
C34_OnlyOneNewFile ==
  [][files' # files =>
       \/ /\ \E name \in DOMAIN files' : DOMAIN files' = DOMAIN files \cup {name} /\ name \notin DOMAIN files
          /\ \A n \in DOMAIN files : files'[n] = files[n]
       \/ /\ DOMAIN files' = DOMAIN files
          /\ \A n \in DOMAIN files :
                files'[n].payloads = files[n].payloads /\ files'[n].open <= files[n].open]_vars

\* The callbacks of the fs.watch watcher whose store is running.
StoringCaptures == {c \in BagToSet(captures) : c.via = "fs.watch" /\ c.pc = "storing"}

\* C30: the stores of one watcher's events run one after the other, in
\* arrival order: the store of a later event does not start before the store
\* of an earlier event has completed, so no two are running at once.
C30_StoresInArrivalOrder ==
  /\ Cardinality(StoringCaptures) <= 1
  /\ \A c \in StoringCaptures : captures[c] = 1


\* C14: every stored file is named <source>-<timestamp>-<8 hex chars>.png
\* with the tag of the source that detected the capture: clipboard,
\* filewatch, dragdrop or stdin.
C14_NamedAfterSource ==
  \A name \in DOMAIN files :
     /\ Len(name) = 4
     /\ name[1] \in {"clipboard", "filewatch", "dragdrop", "stdin"}
     /\ name[2] \in 0..MaxTime
     /\ name[3] \in Suffixes
     /\ name[4] = ".png"

\* The files whose leading bytes match an image signature.
LeadingSignature(kind) == kind \in {"photo"}

\* C25: a file that waits to be classified by its path is taken for an
\* image, and so handed to the store, only when its leading bytes match an
\* image signature, whatever its extension.
C25_ExtensionThenSniff ==
  \A c \in BagToSet(captures) :
     (c.pc = "classify" /\ isImageFile(c.kind)) => LeadingSignature(c.kind)

\* C29: each image file that appears in a watched directory yields exactly
\* one stored file: there are never more stores than files that appeared.
C29_OneStorePerFile == TotalWrites(files) <= appeared

C9_CaptureFailureStaysLocal == exit # "rejected: processImageFile"

\* C10: a directory of the watch list that is missing or cannot be watched
\* is never watched and never ends the process or the initialization; when
\* initialize() has resolved, every directory that can be watched is watched
\* and the clipboard watchers, the drag-and-drop watch and the process
\* monitor have been set up.
C10_BadDirectorySkipped ==
  /\ exit # "rejected: setupDirectoryWatcher"
  /\ \A d \in DirNames : dirs[d] # "ok" => watching[d] = 0
  /\ initPc = At("done") =>
        /\ \A d \in DirNames : dirs[d] = "ok" => watching[d] >= 1
        /\ started = {"terminal", "clipboard", "dragdrop", "stdin", "filewatch", "process"}

\* C10, witness: initialize() has resolved with one directory missing,
\* another unwatchable and a third one watched.
C10_Witness ==
  /\ initPc = At("done") /\ Alive
  /\ \E d1, d2, d3 \in DirNames :
       dirs[d1] = "missing" /\ dirs[d2] = "unwatchable" /\ watching[d3] >= 1

(***************************************************************************)
(* SpecConfig: ClaudeCodeClipboardIntegration.loadConfig and updateConfig, *)
(* called one after the other, and the configuration file                  *)
(***************************************************************************)

\* A configuration is a function from keys to JavaScript values, written as
\* strings ("undefined" is the value undefined); imageFormats is a list.
DefaultConfig(t) ==
  [k \in {"enabled", "autoStart", "imageFormats", "maxFileSize", "compressionQuality", "createdAt"} |->
     CASE k = "enabled" -> "true"
       [] k = "autoStart" -> "false"
       [] k = "imageFormats" -> "png,jpg,jpeg,gif,bmp"
       [] k = "maxFileSize" -> "10MB"
       [] k = "compressionQuality" -> "90"
       [] k = "createdAt" -> ToString(t)]

\* imageFormats.includes(format)
ContainsFormat(formats, format) == formats = "png,jpg,jpeg,gif,bmp" /\ format \in {"png", "jpg", "jpeg", "gif", "bmp"}

\* fs.writeJson -> JSON.stringify: a key whose value is undefined is left out.
writeJson(obj) == FileOf([k \in {x \in DOMAIN obj : obj[x] # "undefined"} |-> obj[k]])

\* fs.readJson -> JSON.parse of what the file holds.
readJson(file) == file.json

\* { ...currentConfig, ...newConfig }
KeepOnlyNew(current, new) == new
Spread(current, new) ==
  [k \in (DOMAIN current) \cup (DOMAIN new) |-> IF k \in DOMAIN new THEN new[k] ELSE current[k]]

\* loadConfig: the file after the call and what the call returns.
loadDefault(file, t) == [file |-> writeJson(DefaultConfig(t)), result |-> DefaultConfig(t)]
loadConfig(file, t) ==
  IF file.exists
  THEN [file |-> file, result |-> readJson(file)]
  ELSE [file |-> writeJson(DefaultConfig(t)), result |-> DefaultConfig(t)]

\* updateConfig(newConfig)
updateConfig(file, new, t) ==
  LET loaded  == loadConfig(file, t)
      updated == Spread(loaded.result, new)
  IN [file |-> writeJson(updated), result |-> updated]

\* The arguments of updateConfig: that of the test 'should update config', a
\* new key, nothing, and a key set to undefined.
NewConfigs ==
  { [k \in {"enabled", "compressionQuality"} |-> IF k = "enabled" THEN "false" ELSE "95"],
    [k \in {"theme"} |-> "dark"],
    [k \in {} |-> "none"],
    [k \in {"enabled"} |-> "undefined"],
    [k \in {"enabled"} |-> "true"] }

\* The files the program can find when it starts: none, the default written
\* by an earlier run, a file the user has cut down.
StoredConfigs == {NoFile, writeJson(DefaultConfig(0)), FileOf([k \in {"enabled"} |-> "false"])}

LoadConfig ==
  /\ LET r == loadConfig(configFile, now) IN
       /\ configFile' = r.file
       /\ configCall' = [op |-> "loadConfig", arg |-> <<>>, at |-> now, before |-> configFile, result |-> r.result]
  /\ configPrev' = configCall
  /\ UNCHANGED <<now, notConfig>>

UpdateConfig ==
  /\ \E new \in NewConfigs :
       LET r == updateConfig(configFile, new, now) IN
       /\ configFile' = r.file
       /\ configCall' = [op |-> "updateConfig", arg |-> new, at |-> now, before |-> configFile, result |-> r.result]
  /\ configPrev' = configCall
  /\ UNCHANGED <<now, notConfig>>

InitConfig ==
  /\ InitStoreVars
  /\ calls = <<>>
  /\ listed = <<>>
  /\ InitClipIdle
  /\ InitStdinIdle
  /\ InitServiceIdle
  /\ InitCoordIdle
  /\ configFile \in StoredConfigs
  /\ configCall = NoCall
  /\ configPrev = NoCall

NextConfig ==
  \/ LoadConfig
  \/ UpdateConfig
  \/ Tick

SpecConfig == InitConfig /\ [][NextConfig]_vars

CurrentConfig(call) ==
  IF call.before.exists THEN call.before.json ELSE DefaultConfig(call.at)

\* What updateConfig returns: the current configuration overlaid with c.
ReturnsOverlay(call) ==
  /\ DOMAIN call.result = (DOMAIN CurrentConfig(call)) \cup (DOMAIN call.arg)
  /\ \A k \in DOMAIN call.arg : call.result[k] = call.arg[k]
  /\ \A k \in (DOMAIN CurrentConfig(call)) \ (DOMAIN call.arg) : call.result[k] = CurrentConfig(call)[k]

\* Every value of the configuration is one that JSON represents.
JsonValues(config) == \A k \in DOMAIN config : config[k] # "undefined"

MaxFiles == 3   \* files in the screenshot directory

\* What can lie in the directory: stored screenshots, and files that do not
\* end in .png.
DirectoryNames ==
  {FileName("screenshot", t, r) : t \in 0..MaxTime, r \in Suffixes}
    \cup {<<"notes", 0, "0a1b2c3d", ".txt">>, <<"screenshot", 0, "0a1b2c3d", ".jpg">>}

\* A file comes to lie in the directory; its birthtime is the clock's.
PutFile ==
  /\ calls = <<>>
  /\ screenshotDir = "present"
  /\ Cardinality(DOMAIN files) < MaxFiles
  /\ \E name \in DirectoryNames \ DOMAIN files :
       files' = EndWrite(BeginWrite(files, name, "imgA", now), name)
  /\ UNCHANGED <<now, returned, clipboard, clipboardWriter, listed, calls,
                 clipVars, stdinVars, coordVars, configVars, serviceVars>>

\* getScreenshotHistory with its try/catch: fs.readdir rejects when the
\* directory cannot be read, and the catch returns [].
AllFilesHistory(dir, fs) == IF dir = "present" THEN Perms({HistoryEntry(fs, n) : n \in DOMAIN fs}) ELSE {<<>>}
HistoryOrEmpty(dir, fs) == IF dir = "present" THEN getScreenshotHistory(fs) ELSE {<<>>}

GetHistory ==
  /\ calls = <<>>
  /\ calls' = <<"getScreenshotHistory">>
  /\ listed' \in HistoryOrEmpty(screenshotDir, files)
  /\ UNCHANGED <<storeVars, clipVars, stdinVars, coordVars, configVars, serviceVars>>

\* cleanupOldScreenshots(daysOld = 30): the cutoff is the clock minus daysOld
\* days (the clock of SpecHistory counts days); every entry that readdir
\* returns and whose birthtime is before the cutoff is removed and counted.
DefaultDaysOld == 30
CleanupArgs == {<<>>, <<0>>, <<1>>}
DaysOld(arg) == IF arg = <<>> THEN DefaultDaysOld ELSE arg[1]
Restrict(f, S) == [x \in S |-> f[x]]
cleanupOldScreenshots(fs, t, daysOld) ==
  LET old == {n \in DOMAIN fs : fs[n].created < t - daysOld}
  IN  [kept |-> Restrict(fs, DOMAIN fs \ old), deleted |-> Cardinality(old)]

\* A call of cleanupOldScreenshots; readdir rejects when the directory cannot
\* be read, and the error is logged and rethrown.
Cleanup ==
  /\ calls = <<>>
  /\ \E arg \in CleanupArgs :
       /\ calls' = <<"cleanupOldScreenshots", arg>>
       /\ IF screenshotDir = "present"
          THEN LET r == cleanupOldScreenshots(files, now, DaysOld(arg)) IN
               /\ files' = r.kept
               /\ returned' = <<r.deleted>>
          ELSE UNCHANGED <<files, returned>>
  /\ UNCHANGED <<now, clipboard, clipboardWriter, listed, clipVars, stdinVars, coordVars, configVars, serviceVars>>

HistoryTick ==
  /\ calls = <<>>
  /\ Tick

InitHistory ==
  /\ InitStoreVars
  /\ calls = <<>>
  /\ listed = <<>>
  /\ platform = "darwin"
  /\ screenshotDir \in {"absent", "present"}
  /\ seenImage = {}
  /\ ticks = EmptyBag
  /\ polling = FALSE
  /\ lastClipboardContent = NullContent
  /\ timers = 0
  /\ intervalOn = FALSE
  /\ coord = "new"
  /\ InitStdinIdle
  /\ InitServiceIdle
  /\ InitCoordIdle
  /\ InitConfigIdle

NextHistory ==
  \/ PutFile
  \/ GetHistory
  \/ Cleanup
  \/ HistoryTick

SpecHistory == InitHistory /\ [][NextHistory]_vars

\* C17: what getScreenshotHistory has returned holds one entry, with file
\* name and full path, for each file of the directory that ends in .png and
\* no other entry, newest first; it is empty when the directory cannot be
\* read.
C17_History ==
  (calls # <<>> /\ calls[1] = "getScreenshotHistory") =>
     /\ {listed[i].filename : i \in DOMAIN listed} = {n \in DOMAIN files : n[4] = ".png"}
     /\ \A i, j \in DOMAIN listed : listed[i].filename = listed[j].filename => i = j
     /\ \A i \in DOMAIN listed : listed[i].path = <<"screenshotDir">> \o listed[i].filename
     /\ \A i, j \in DOMAIN listed :
           i < j => files[listed[i].filename].created >= files[listed[j].filename].created
     /\ screenshotDir = "absent" => listed = <<>>

\* C35: a call of cleanupOldScreenshots(d) on a readable directory deletes
\* exactly the stored screenshots created more than d days ago (30 when d is
\* not given), leaves every other file unchanged and returns the number of
\* files it deleted.
C35_CleanupOldScreenshots ==
  [][(calls = <<>> /\ calls' # <<>> /\ calls'[1] = "cleanupOldScreenshots" /\ screenshotDir = "present") =>
       LET old == {n \in DOMAIN files : n[4] = ".png" /\ files[n].created < now - DaysOld(calls'[2])} IN
       /\ DOMAIN files' = DOMAIN files \ old
       /\ \A n \in DOMAIN files' : files'[n] = files[n]
       /\ returned' = <<Cardinality(old)>>]_vars

\* C17, witness: the directory held a file that does not end in .png and two
\* screenshots of different age, and the history lists the two.
C17_Witness ==
  /\ calls = <<"getScreenshotHistory">>
  /\ Len(listed) = 2
  /\ listed[1].created > listed[2].created
  /\ Cardinality(DOMAIN files) = 3

(***************************************************************************)
(* SpecService: the service.sh that install.sh generates, run from several *)
(* terminals at once                                                       *)
(***************************************************************************)
MaxLaunches == 2   \* handler processes launched in one behaviour

\* The terminals from which service.sh is run.
Terminals == {"one", "two"}
Commands  == {"start", "stop", "restart", "status"}

\* A terminal in which no run of service.sh is in progress; rc is the exit
\* status of the last run.
Finished(cmd, rc) == [cmd |-> cmd, fn |-> "none", step |-> "done", pid |-> NoPid, rc |-> rc]
\* A run at a step of one of the functions start, stop, status.
AtStep(run, fn, step) == [run EXCEPT !.fn = fn, !.step = step]

\* The case statement: restart is stop, sleep 2, start.
FirstFunction(cmd) == IF cmd = "restart" THEN "stop" ELSE cmd

\* A function returns: the run ends, or restart goes on to start.
Return(run, rc) ==
  IF run.cmd = "restart" /\ run.fn = "stop"
  THEN AtStep(run, "start", "test")
  ELSE Finished(run.cmd, rc)

\* service.sh is run with one of its commands.
Invoke(t) ==
  /\ scripts[t].step = "done"
  /\ \E cmd \in Commands :
       scripts' = [scripts EXCEPT ![t] = [cmd |-> cmd, fn |-> FirstFunction(cmd), step |-> "test", pid |-> NoPid, rc |-> 0]]
  /\ UNCHANGED <<pidFile, handlers, launched, notService>>

\* `if [[ -f "$PID_FILE" ]]`: without the file start goes to the launch, and
\* stop and status report and return.
TestPidFile(t) ==
  /\ scripts[t].step = "test"
  /\ scripts' = [scripts EXCEPT ![t] =
       IF pidFile # NoPid THEN AtStep(@, @.fn, "cat")
       ELSE IF @.fn = "start" THEN AtStep(@, "start", "launch")
       ELSE Return(@, 0)]
  /\ UNCHANGED <<pidFile, handlers, launched, notService>>

\* `PID=$(cat "$PID_FILE")`; when the file has gone meanwhile PID is empty.
ReadPid(t) ==
  /\ scripts[t].step = "cat"
  /\ scripts' = [scripts EXCEPT ![t] = [AtStep(@, @.fn, "probe") EXCEPT !.pid = pidFile]]
  /\ UNCHANGED <<pidFile, handlers, launched, notService>>

\* `if kill -0 "$PID"`: start returns 1 when the process lives and launches
\* otherwise; stop kills it when it lives; stop and status remove the file of
\* a process that does not.
ProbePid(t) ==
  /\ scripts[t].step = "probe"
  /\ LET alive == scripts[t].pid \in handlers IN
     scripts' = [scripts EXCEPT ![t] =
       IF @.fn = "start" THEN (IF alive THEN Return(@, 1) ELSE AtStep(@, "start", "launch"))
       ELSE IF @.fn = "stop" THEN AtStep(@, "stop", IF alive THEN "kill" ELSE "rm")
       ELSE (IF alive THEN Return(@, 0) ELSE AtStep(@, "status", "rm"))]
  /\ UNCHANGED <<pidFile, handlers, launched, notService>>

\* `nohup node cli.js start > "$LOG_FILE" 2>&1 &`: a new process, whose PID
\* is $!.
Launch(t) ==
  /\ scripts[t].step = "launch"
  /\ launched < MaxLaunches
  /\ launched' = launched + 1
  /\ handlers' = handlers \cup {launched'}
  /\ scripts' = [scripts EXCEPT ![t] = [AtStep(@, "start", "write") EXCEPT !.pid = launched']]
  /\ UNCHANGED <<pidFile, notService>>

\* `echo $! > "$PID_FILE"`, the last command of start.
WritePid(t) ==
  /\ scripts[t].step = "write"
  /\ pidFile' = scripts[t].pid
  /\ scripts' = [scripts EXCEPT ![t] = Return(@, 0)]
  /\ UNCHANGED <<handlers, launched, notService>>

\* `kill "$PID"` in stop.
Kill(t) ==
  /\ scripts[t].step = "kill"
  /\ handlers' = handlers \ {scripts[t].pid}
  /\ scripts' = [scripts EXCEPT ![t] = AtStep(@, "stop", "rm")]
  /\ UNCHANGED <<pidFile, launched, notService>>

\* `rm -f "$PID_FILE"` in stop and in status.
RemovePidFile(t) ==
  /\ scripts[t].step = "rm"
  /\ pidFile' = NoPid
  /\ scripts' = [scripts EXCEPT ![t] = Return(@, 0)]
  /\ UNCHANGED <<handlers, launched, notService>>

\* A handler process ends by itself: `node cli.js start` exits with code 1
\* when start() rejects, and any process can be killed from outside.
HandlerExits ==
  /\ \E p \in handlers : handlers' = handlers \ {p}
  /\ UNCHANGED <<pidFile, launched, scripts, notService>>

InitService ==
  /\ InitStoreVars
  /\ calls = <<>>
  /\ listed = <<>>
  /\ InitClipIdle
  /\ InitStdinIdle
  /\ InitCoordIdle
  /\ InitConfigIdle
  /\ pidFile = NoPid
  /\ handlers = {}
  /\ launched = 0
  /\ scripts = [t \in Terminals |-> Finished("none", 0)]

NextService ==
  \/ \E t \in Terminals : Invoke(t)
  \/ \E t \in Terminals : TestPidFile(t)
  \/ \E t \in Terminals : ReadPid(t)
  \/ \E t \in Terminals : ProbePid(t)
  \/ \E t \in Terminals : Launch(t)
  \/ \E t \in Terminals : WritePid(t)
  \/ \E t \in Terminals : Kill(t)
  \/ \E t \in Terminals : RemovePidFile(t)
  \/ HandlerExits

SpecService == InitService /\ [][NextService]_vars

NoRunInProgress == \A t \in Terminals : scripts[t].step = "done"

\* C40: whatever the interleaving of runs of service.sh, at most one handler
\* process that it launched is running, start launches nothing while the
\* recorded PID is alive and a start that finds it alive returns 1, and when
\* no run is in progress and a handler runs, the PID file, if present, holds
\* the PID of that handler.
C40_OneHandlerOnePidFile ==
  /\ [](Cardinality(handlers) <= 1)
  /\ []((NoRunInProgress /\ pidFile # NoPid /\ handlers # {}) => pidFile \in handlers)
  /\ [][launched' # launched => pidFile \notin handlers]_vars
  /\ [][\A t \in Terminals :
          (scripts[t].fn = "start" /\ scripts[t].step = "probe" /\ scripts'[t] # scripts[t] /\ scripts[t].pid \in handlers)
            => scripts'[t] = Finished(scripts[t].cmd, 1) /\ launched' = launched]_vars
====
